---- MODULE Spec2Model ----
(***************************************************************************)
(* State-machine model of route_tts.client.TTS: the voice registry, the    *)
(* speech-block scan of generate_speech_list with its ElevenLabs request   *)
(* stitching groups, the provider adapters and normalize_audio.            *)
(*                                                                         *)
(* A speech block is referred to by its position in speech_blocks: the     *)
(* group list of the code holds references to the caller's block objects,  *)
(* and a position is that reference.  Optional values (Python None) are    *)
(* sequences of length at most one: <<>> is None, <<v>> is the value v.    *)
(***************************************************************************)
EXTENDS Integers, Sequences, FiniteSets, TLC

(* ------------------------------ bounds -------------------------------- *)

\* Longest input whose blocks are drawn freely from every voice identifier.
MaxBlocks == 3

\* Longest input made of blocks of one single ElevenLabs voice.
MaxRun == 5

\* Longest list normalize_audio is called with.
MaxSegments == 3

\* Longest input of a generate_speech_list call that the caller repeats.
MaxRepeat == 2

\* Longest list of voices given to the constructor or to initialize_voices.
MaxVoices == 2

(* ------------------------- program constants -------------------------- *)

\* normalize_audio(..., target_dBFS: float = -30.0, ...)
target_dBFS == -30

\* normalize_audio(..., tolerance: float = 3.0)
tolerance == 3

\* previous_request_ids[-3:]
StitchWindow == 3

OPENAI == "OpenAI"

ELEVENLABS == "ElevenLabs"

None == <<>>

Some(v) == <<v>>

(* ------------------------------ inputs -------------------------------- *)

\* Voices given to the constructor: two ElevenLabs voices and one OpenAI voice.
VoiceE1 == [id |-> "e1", platform |-> ELEVENLABS, voice_model |-> "eleven_turbo_v2_5", voice |-> "vA"]

VoiceE2 == [id |-> "e2", platform |-> ELEVENLABS, voice_model |-> "eleven_turbo_v2_5", voice |-> "vB"]

VoiceO1 == [id |-> "o1", platform |-> OPENAI, voice_model |-> "tts-1", voice |-> "alloy"]

ConstructorVoices == <<VoiceE1, VoiceE2, VoiceO1>>

\* Voice identifiers a speech block may name; "zz" is never registered.
VoiceIds == {"e1", "e2", "o1", "zz"}

\* The text of the block at a position: the first text is the empty string,
\* the others are pairwise different.
TextAt(k) == CASE k = 1 -> "" [] k = 2 -> "b" [] k = 3 -> "c" [] k = 4 -> "d"
               [] k = 5 -> "e" [] k = 6 -> "f" [] OTHER -> "g"

\* The trailing silence asked for after the block at a position, in ms.
BufferAt(k) == IF k = 2 THEN 1 ELSE 0

\* SpeechBlock(voice_id, text, buffer)
SpeechBlock(voice_id, k) == [voice_id |-> voice_id, text |-> TextAt(k), buffer |-> BufferAt(k)]

BlocksOf(ids) == [k \in 1..Len(ids) |-> SpeechBlock(ids[k], k)]

SeqsUpTo(S, n) == UNION {[1..m -> S] : m \in 0..n}

\* The inputs of generate_speech_list: every sequence of at most MaxBlocks
\* blocks over all voice identifiers, and the runs of one ElevenLabs voice of
\* at most MaxRun blocks.
InputBlocks ==
    {BlocksOf(ids) : ids \in SeqsUpTo(VoiceIds, MaxBlocks)}
    \cup {BlocksOf([k \in 1..m |-> "e1"]) : m \in 0..MaxRun}

\* What a provider's audio bytes decode to: loudness (dBFS) and length (ms).
Clips == {[dBFS |-> -40, ms |-> 1], [dBFS |-> -20, ms |-> 2]}

(* ------------------------- rational arithmetic ------------------------ *)
\* Loudness values are exact rationals <<numerator, denominator>> in lowest
\* terms with a positive denominator.

Abs(n) == IF n < 0 THEN -n ELSE n

RECURSIVE Gcd(_, _)
Gcd(a, b) == IF b = 0 THEN a ELSE Gcd(b, a % b)

Rat(n, d) ==
    LET s == IF d < 0 THEN -1 ELSE 1
        g == Gcd(Abs(n), Abs(d))
    IN  <<(s * n) \div g, (s * d) \div g>>

RInt(n) == <<n, 1>>

RAdd(a, b) == Rat(a[1] * b[2] + b[1] * a[2], a[2] * b[2])

RSub(a, b) == Rat(a[1] * b[2] - b[1] * a[2], a[2] * b[2])

RMul(a, b) == Rat(a[1] * b[1], a[2] * b[2])

RDiv(a, b) == Rat(a[1] * b[2], a[2] * b[1])

RLess(a, b) == a[1] * b[2] < b[1] * a[2]

(* ----------------------------- strings -------------------------------- *)

\* " ".join(texts)
RECURSIVE Join(_)
Join(texts) ==
    IF Len(texts) = 0 THEN ""
    ELSE IF Len(texts) = 1 THEN texts[1]
    ELSE texts[1] \o " " \o Join(Tail(texts))

\* s[-n:]
LastN(s, n) == IF Len(s) <= n THEN s ELSE SubSeq(s, Len(s) - n + 1, Len(s))

\* s[:n] and s[n:] of Python, for 0 <= n <= len(s)
Prefix(s, n) == SubSeq(s, 1, n)

Suffix(s, n) == SubSeq(s, n + 1, Len(s))

(* ------------------------------ state --------------------------------- *)

VARIABLES
    voices,                          \* self.voices: id -> Voice
    voice_order,                     \* the keys of self.voices in insertion order
    openai_client,                   \* self.openai_client is not None
    elevenlabs_client,               \* self.elevenlabs_client is not None
    pc,                              \* position of the running call
    op,                              \* the public method called
    arg,                             \* its argument, when it is not one below
    speech_blocks,                   \* argument of generate_speech_list
    single_output,                   \* argument
    normalize_outputs,               \* argument
    request_stitching,               \* argument
    i,                               \* loop index of the scan (1-based)
    eleven_labs_speech_block_group,  \* the current group (block positions)
    audio_segments,                  \* produced audio, in production order
    ret,                             \* where the running group flush returns to
    j,                               \* loop index inside the group flush
    previous_request_ids,            \* local of generate_eleven_labs_audio_group
    eleven_labs_audio_segments,      \* local of generate_eleven_labs_audio_group
    calls,                           \* history: adapter calls of this invocation
    flushes,                         \* history: the groups flushed in this invocation
    result,                          \* what the invocation returned or raised
    last                             \* history: the invocation before, when the caller kept it

vars == <<voices, voice_order, openai_client, elevenlabs_client, pc, op, arg, speech_blocks,
          single_output, normalize_outputs, request_stitching, i,
          eleven_labs_speech_block_group, audio_segments, ret, j,
          previous_request_ids, eleven_labs_audio_segments, calls, flushes,
          result, last>>

registryVars == <<voices, voice_order, openai_client, elevenlabs_client>>

argVars == <<op, arg, speech_blocks, single_output, normalize_outputs, request_stitching, last>>

flushVars == <<ret, j, previous_request_ids, eleven_labs_audio_segments>>

NoResult == [kind |-> "none"]

\* Mutant of Upsert: a voice is stored only when its identifier is new
\* (self.voices.setdefault(voice.id, voice)).
Upsert_KeepExisting(reg, v) ==
    [id \in DOMAIN reg \cup {v.id} |-> IF id \in DOMAIN reg THEN reg[id] ELSE v]

\* self.voices[voice.id] = voice
Upsert(reg, v) == [id \in DOMAIN reg \cup {v.id} |-> IF id = v.id THEN v ELSE reg[id]]

\* for voice in voices: self.voices[voice.id] = voice
RECURSIVE UpsertMany(_, _)
UpsertMany(reg, vs) ==
    IF Len(vs) = 0 THEN reg ELSE UpsertMany(Upsert(reg, vs[1]), Tail(vs))

EmptyRegistry == [id \in {} |-> id]

\* Mutant of OrderAfterUpsert: the registry is kept as a list and every voice
\* given is appended to it.
OrderAfterUpsert_Append(order, v) == Append(order, v.id)

\* The keys of the dictionary after self.voices[voice.id] = voice: a new key
\* comes last, a key already there keeps its place.
OrderAfterUpsert(order, v) ==
    IF \E k \in 1..Len(order) : order[k] = v.id THEN order ELSE Append(order, v.id)

RECURSIVE OrderAfterUpsertMany(_, _)
OrderAfterUpsertMany(order, vs) ==
    IF Len(vs) = 0 THEN order
    ELSE OrderAfterUpsertMany(OrderAfterUpsert(order, vs[1]), Tail(vs))

\* TTS.__init__: the voices dictionary keyed by voice.id; a client exists
\* when an API key was given or is in the environment.
Init ==
    /\ voices = UpsertMany(EmptyRegistry, ConstructorVoices)
    /\ voice_order = OrderAfterUpsertMany(<<>>, ConstructorVoices)
    /\ openai_client \in BOOLEAN
    /\ elevenlabs_client \in BOOLEAN
    /\ pc = "idle"
    /\ op = "none"
    /\ arg = None
    /\ speech_blocks = <<>>
    /\ single_output = TRUE
    /\ normalize_outputs = TRUE
    /\ request_stitching = TRUE
    /\ i = 1
    /\ eleven_labs_speech_block_group = <<>>
    /\ audio_segments = <<>>
    /\ ret = "none"
    /\ j = 1
    /\ previous_request_ids = <<>>
    /\ eleven_labs_audio_segments = <<>>
    /\ calls = <<>>
    /\ flushes = <<>>
    /\ result = NoResult
    /\ last = None

(* ------------------------------ errors -------------------------------- *)
\* An exception: its class, its message template and the values the message
\* interpolates.

\* self.voices[block.voice_id] on an unregistered identifier
KeyErrorOf(voice_id) ==
    [type |-> "KeyError", msg |-> "{voice_id}", mentions |-> {<<"voice_id", voice_id>>}]

\* raise ValueError(f"Voice ID '{speech_block.voice_id}' not found")
VoiceNotFound(voice_id) ==
    [type |-> "ValueError", msg |-> "Voice ID '{voice_id}' not found",
     mentions |-> {<<"voice_id", voice_id>>}]

\* raise ValueError(f"Unsupported platform: {voice.platform}")
UnsupportedPlatform(platform) ==
    [type |-> "ValueError", msg |-> "Unsupported platform: {platform}",
     mentions |-> {<<"platform", platform>>}]

\* What a failed adapter call raises, by the way it failed.
AdapterError(provider, outcome) ==
    CASE outcome = "no_client" /\ provider = OPENAI ->
            [type |-> "ValueError", msg |-> "OpenAI client is not initialized.", mentions |-> {}]
      [] outcome = "no_client" /\ provider = ELEVENLABS ->
            [type |-> "ValueError", msg |-> "ElevenLabs client is not initialized.", mentions |-> {}]
      [] outcome = "http_error" /\ provider = ELEVENLABS ->
            [type |-> "Exception", msg |-> "Error generating speech: {response.text}",
             mentions |-> {<<"response_text">>}]
      [] outcome = "http_error" /\ provider = OPENAI ->
            [type |-> "APIError", msg |-> "{response}", mentions |-> {<<"response_text">>}]
      [] outcome = "no_request_id" ->
            [type |-> "ValueError", msg |-> "No request-id found in response headers", mentions |-> {}]
      [] OTHER ->
            [type |-> "CouldntDecodeError", msg |-> "Decoding failed", mentions |-> {}]

\* except Exception as e: raise ValueError(f"Error generating speech for block. Error: {str(e)}")
Wrapped(e) ==
    [type |-> "ValueError",
     msg |-> "Error generating speech for block. Error: " \o e.msg,
     mentions |-> e.mentions]

\* max() over no segment at all
EmptyMax == [type |-> "ValueError", msg |-> "max() arg is an empty sequence", mentions |-> {}]

(* ----------------------------- adapters ------------------------------- *)

NoClip == [dBFS |-> 0, ms |-> 0]

\* What can come back from openai.audio.speech.create and the decoding of its
\* content.
OpenAIResponses ==
    IF ~openai_client THEN {[outcome |-> "no_client", clip |-> NoClip]}
    ELSE {[outcome |-> "ok", clip |-> c] : c \in Clips}
         \cup {[outcome |-> o, clip |-> NoClip] : o \in {"http_error", "decode_error"}}

\* What can come back from generate_speech_with_conditioning: a 200 with a
\* request-id header, any other status, a 200 without the header, and audio
\* bytes that do not decode.
ElevenLabsResponses ==
    IF ~elevenlabs_client THEN {[outcome |-> "no_client", clip |-> NoClip]}
    ELSE {[outcome |-> "ok", clip |-> c] : c \in Clips}
         \cup {[outcome |-> o, clip |-> NoClip] :
                  o \in {"http_error", "no_request_id", "decode_error"}}

\* if previous_request_ids: payload["previous_request_ids"] = previous_request_ids[-3:]
PayloadRequestIds(ids) ==
    IF ids # None /\ Len(ids[1]) > 0 THEN Some(LastN(ids[1], StitchWindow)) ELSE None

\* The request _generate_openai_speech sends for the block at pos.
OpenAIRequest(pos, voice, text) ==
    [provider |-> OPENAI, pos |-> pos, voice |-> voice.voice, model |-> voice.voice_model,
     text |-> text, previous_text |-> None, next_text |-> None,
     previous_request_ids |-> None]

\* The request _generate_elevenlabs_speech sends through
\* generate_speech_with_conditioning for the block at pos: a key of the payload
\* that is not set is None here.
ElevenLabsRequest(pos, voice, text, previous_text, next_text, ids) ==
    [provider |-> ELEVENLABS, pos |-> pos, voice |-> voice.voice, model |-> voice.voice_model,
     text |-> text, previous_text |-> previous_text, next_text |-> next_text,
     previous_request_ids |-> PayloadRequestIds(ids)]

\* The provider's request-id of a call: a fresh identifier for every request.
RequestIdOf(n) == n

\* AudioSegment.from_file(io.BytesIO(audio_data)) of the n-th call's bytes
CreateAudioSegment(n, clip) == [call |-> n, dBFS |-> RInt(clip.dBFS), ms |-> clip.ms]

(* --------------------------- normalize_audio -------------------------- *)

\* An item of the list given as a tuple (AudioSegment, request_id).
Tuple(audio, request_id) == [audio |-> audio, request_id |-> request_id]

\* isinstance(item, tuple)
isinstance_tuple(item) == "request_id" \in DOMAIN item

\* get_audio(item): item[0] of a tuple, the item itself otherwise
get_audio(item) == IF isinstance_tuple(item) THEN item.audio ELSE item

RECURSIVE MaxdBFS(_)
MaxdBFS(segs) ==
    IF Len(segs) = 1 THEN get_audio(segs[1]).dBFS
    ELSE LET m == MaxdBFS(Tail(segs))
         IN  IF RLess(get_audio(segs[1]).dBFS, m) THEN m ELSE get_audio(segs[1]).dBFS

RECURSIVE MindBFS(_)
MindBFS(segs) ==
    IF Len(segs) = 1 THEN get_audio(segs[1]).dBFS
    ELSE LET m == MindBFS(Tail(segs))
         IN  IF RLess(m, get_audio(segs[1]).dBFS) THEN m ELSE get_audio(segs[1]).dBFS

\* Mutant of CompressedGain: soft compression, the range is only brought
\* halfway to the target range, around the target level.
CompressedGain_Halfway(level, max_dBFS, min_dBFS) ==
    LET mid == RDiv(RAdd(max_dBFS, min_dBFS), RInt(2))
        normalized_dBFS == RAdd(RInt(target_dBFS), RDiv(RSub(level, mid), RInt(2)))
    IN  RSub(normalized_dBFS, level)

\* Mutant of CompressedGain: the level is mapped onto
\* [target_dBFS, target_dBFS + 2 * tolerance].
CompressedGain_FromTarget(level, max_dBFS, min_dBFS) ==
    LET current_range == RSub(max_dBFS, min_dBFS)
        target_range == RInt(2 * tolerance)
        normalized_dBFS ==
            RAdd(RMul(RDiv(RSub(level, min_dBFS), current_range), target_range),
                 RInt(target_dBFS))
    IN  RSub(normalized_dBFS, level)

\* The adjustment of the compressing branch: the level is mapped linearly from
\* [min_dBFS, max_dBFS] onto [target_dBFS - tolerance, target_dBFS + tolerance].
CompressedGain(level, max_dBFS, min_dBFS) ==
    LET current_range == RSub(max_dBFS, min_dBFS)
        target_range == RInt(2 * tolerance)
        normalized_dBFS ==
            RAdd(RMul(RDiv(RSub(level, min_dBFS), current_range), target_range),
                 RInt(target_dBFS - tolerance))
    IN  RSub(normalized_dBFS, level)

\* Mutant of CenterGain: the loudest segment is brought to the target level.
CenterGain_ToMax(max_dBFS, min_dBFS) == RSub(RInt(target_dBFS), max_dBFS)

\* center_adjustment: the middle of the extremes goes to the target level.
CenterGain(max_dBFS, min_dBFS) ==
    RSub(RInt(target_dBFS), RDiv(RAdd(max_dBFS, min_dBFS), RInt(2)))

\* Mutant of NormalizeGain: segments that all have the same level are left as
\* they are.
NormalizeGain_SkipEqual(level, max_dBFS, min_dBFS) ==
    IF max_dBFS = min_dBFS THEN RInt(0)
    ELSE IF RLess(RInt(2 * tolerance), RSub(max_dBFS, min_dBFS))
         THEN CompressedGain(level, max_dBFS, min_dBFS)
         ELSE CenterGain(max_dBFS, min_dBFS)

\* The gain normalize_audio applies to one segment.
NormalizeGain(level, max_dBFS, min_dBFS) ==
    LET current_range == RSub(max_dBFS, min_dBFS)
        target_range == RInt(2 * tolerance)
    IN  IF RLess(target_range, current_range)
        THEN CompressedGain(level, max_dBFS, min_dBFS)
        ELSE CenterGain(max_dBFS, min_dBFS)

\* Mutant of NormalizedItem: the normalized audio is appended on its own.
NormalizedItem_AudioOnly(segment, normalized_audio) == normalized_audio

\* What is appended to normalized_segments for one item of the input.
NormalizedItem(segment, normalized_audio) ==
    IF isinstance_tuple(segment)
    THEN Tuple(normalized_audio, segment.request_id)
    ELSE normalized_audio

\* audio.apply_gain(gain)
ApplyGain(audio, gain) == [audio EXCEPT !.dBFS = RAdd(audio.dBFS, gain)]

\* Mutant of normalize_audio: the list is normalized whatever normalize_outputs
\* is.
normalize_audio_Always(segs, normalize) ==
    IF Len(segs) = 0 THEN [ok |-> FALSE, error |-> EmptyMax]
    ELSE [ok |-> TRUE,
          value |-> [k \in 1..Len(segs) |->
                        NormalizedItem(segs[k],
                            ApplyGain(get_audio(segs[k]),
                                      NormalizeGain(get_audio(segs[k]).dBFS,
                                                    MaxdBFS(segs), MindBFS(segs))))]]

\* normalize_audio(audio_segments, normalize_outputs): the list it returns, or
\* the exception it raises.
normalize_audio(segs, normalize) ==
    IF ~normalize THEN [ok |-> TRUE, value |-> segs]
    ELSE IF Len(segs) = 0 THEN [ok |-> FALSE, error |-> EmptyMax]
    ELSE LET max_dBFS == MaxdBFS(segs)
             min_dBFS == MindBFS(segs)
         IN  [ok |-> TRUE,
              value |-> [k \in 1..Len(segs) |->
                            NormalizedItem(segs[k],
                                ApplyGain(get_audio(segs[k]),
                                          NormalizeGain(get_audio(segs[k]).dBFS,
                                                        max_dBFS, min_dBFS)))]]

(* ------------------------- generate_speech_list ----------------------- *)

Raised(e) == [kind |-> "error", error |-> e]

\* Mutant of Raise: the failure ends the scan and what was produced so far is
\* returned (a partial-results mode).
Raise_Partial(e, newCalls) ==
    /\ pc' = "finish"
    /\ calls' = newCalls
    /\ UNCHANGED <<registryVars, argVars, i, eleven_labs_speech_block_group,
                   audio_segments, flushVars, flushes, result>>

\* An exception leaves generate_speech_list: the invocation is over.
Raise(e, newCalls) ==
    /\ pc' = "done"
    /\ result' = Raised(e)
    /\ calls' = newCalls
    /\ UNCHANGED <<registryVars, argVars, i, eleven_labs_speech_block_group,
                   audio_segments, flushVars, flushes>>

\* The call generate_speech_list(speech_blocks, single_output,
\* normalize_outputs, request_stitching) starts: empty audio_segments, empty
\* group.
GenerateSpeechList(blocks, single, normalize, stitching) ==
    /\ pc = "idle"
    /\ op' = "generate_speech_list"
    /\ arg' = None
    /\ speech_blocks' = blocks
    /\ single_output' = single
    /\ normalize_outputs' = normalize
    /\ request_stitching' = stitching
    /\ pc' = "scan"
    /\ i' = 1
    /\ eleven_labs_speech_block_group' = <<>>
    /\ audio_segments' = <<>>
    /\ UNCHANGED <<registryVars, flushVars, calls, flushes, result, last>>

\* The caller has the value or the exception: the frame of the invocation and
\* its locals are gone, and the registry and the clients stay as they are;
\* `kept` is what the caller keeps of the invocation.
Returns(kept) ==
    /\ pc = "done"
    /\ pc' = "idle"
    /\ op' = "none"
    /\ arg' = None
    /\ speech_blocks' = <<>>
    /\ single_output' = TRUE
    /\ normalize_outputs' = TRUE
    /\ request_stitching' = TRUE
    /\ i' = 1
    /\ eleven_labs_speech_block_group' = <<>>
    /\ audio_segments' = <<>>
    /\ ret' = "none"
    /\ j' = 1
    /\ previous_request_ids' = <<>>
    /\ eleven_labs_audio_segments' = <<>>
    /\ calls' = <<>>
    /\ flushes' = <<>>
    /\ result' = NoResult
    /\ last' = kept
    /\ UNCHANGED registryVars

Return == Returns(None)

\* return voice.platform == Platform.ELEVENLABS, for a registered voice
is_eleven_labs_voice(pos) == voices[speech_blocks[pos].voice_id].platform = ELEVENLABS

\* Mutant of should_group_speech_block: only an empty group takes a block.
should_group_speech_block_OnlyEmpty(group, pos) == Len(group) = 0

\* not group or group[-1].voice_id == speech_block.voice_id
should_group_speech_block(group, pos) ==
    IF Len(group) = 0 THEN TRUE
    ELSE speech_blocks[group[Len(group)]].voice_id = speech_blocks[pos].voice_id

\* Mutant of GenerateSpeechRequest: the ElevenLabs call carries the texts
\* around the block.
GenerateSpeechRequest_WithContext(pos, voice, text) ==
    IF voice.platform = OPENAI
    THEN OpenAIRequest(pos, voice, text)
    ELSE ElevenLabsRequest(pos, voice, text,
                           IF pos = 1 THEN None ELSE Some(speech_blocks[pos - 1].text),
                           IF pos = Len(speech_blocks) THEN None ELSE Some(speech_blocks[pos + 1].text),
                           None)

\* The request generate_speech makes for a block: the OpenAI adapter, or the
\* ElevenLabs adapter with no previous_text, next_text or previous_request_ids.
GenerateSpeechRequest(pos, voice, text) ==
    IF voice.platform = OPENAI
    THEN OpenAIRequest(pos, voice, text)
    ELSE ElevenLabsRequest(pos, voice, text, None, None, None)

\* The responses the n-th call of an invocation can get. When the caller
\* repeats an invocation it kept, the provider answers the n-th call as it
\* answered the n-th call then, if it can.
Replayed(responses, n) ==
    IF last = None THEN responses
    ELSE IF n > Len(last[1].calls) THEN responses
    ELSE LET same == {r \in responses : /\ r.outcome = last[1].calls[n].outcome
                                        /\ r.clip = last[1].calls[n].clip}
         IN  IF same = {} THEN responses ELSE same

\* Mutant of ResponseAccepted: a response without request-id header is taken
\* as it is, with no request id.
ResponseAccepted_WithoutToken(r) == r.outcome \in {"ok", "no_request_id"}

\* The adapter call gives audio: the client is there, the status is 200, the
\* request-id header is present where it is asked for, and the bytes decode.
ResponseAccepted(r) == r.outcome = "ok"

\* History record of an adapter call: the request, how it ended, the
\* request-id the response carried, and where the call was made (by
\* generate_speech, or as the k-th call of the flush numbered `flush`).
CallRecord(request, response, n, via, flush, k) ==
    request @@ [outcome |-> response.outcome,
                clip |-> response.clip,
                request_id |-> IF response.outcome \in {"ok", "decode_error"}
                                  /\ request.provider = ELEVENLABS
                               THEN Some(RequestIdOf(n)) ELSE None,
                via |-> via, flush |-> flush, k |-> k]

\* generate_speech(speech_block) called for block i inside the try of the
\* scan: resolve the voice, dispatch on its platform, call the adapter, decode
\* and append the audio; any exception is re-raised as the wrapped ValueError.
GenerateSpeechBlock ==
    LET block == speech_blocks[i]
        n == Len(calls) + 1
    IN  IF block.voice_id \notin DOMAIN voices
        THEN Raise(Wrapped(VoiceNotFound(block.voice_id)), calls)
        ELSE LET voice == voices[block.voice_id]
                 request == GenerateSpeechRequest(i, voice, block.text)
                 responses == IF voice.platform = OPENAI THEN OpenAIResponses
                              ELSE ElevenLabsResponses
             IN  IF voice.platform \notin {OPENAI, ELEVENLABS}
                 THEN Raise(Wrapped(UnsupportedPlatform(voice.platform)), calls)
                 ELSE \E r \in Replayed(responses, n) :
                        LET call == CallRecord(request, r, n, "generate_speech", 0, 0)
                        IN  IF ResponseAccepted(r)
                            THEN /\ audio_segments' = Append(audio_segments, CreateAudioSegment(n, r.clip))
                                 /\ calls' = Append(calls, call)
                                 /\ i' = i + 1
                                 /\ pc' = "scan"
                                 /\ UNCHANGED <<registryVars, argVars, flushVars, result,
                                                flushes, eleven_labs_speech_block_group>>
                            ELSE Raise(Wrapped(AdapterError(voice.platform, r.outcome)),
                                       Append(calls, call))

\* request_stitching and the voice of block i is not registered:
\* self.voices[...] raises KeyError inside the try.
ScanUnknownVoice ==
    /\ pc = "scan" /\ i <= Len(speech_blocks) /\ request_stitching
    /\ speech_blocks[i].voice_id \notin DOMAIN voices
    /\ Raise(Wrapped(KeyErrorOf(speech_blocks[i].voice_id)), calls)

\* An ElevenLabs block that joins the current group.
ScanGroup ==
    /\ pc = "scan" /\ i <= Len(speech_blocks) /\ request_stitching
    /\ speech_blocks[i].voice_id \in DOMAIN voices
    /\ is_eleven_labs_voice(i)
    /\ should_group_speech_block(eleven_labs_speech_block_group, i)
    /\ eleven_labs_speech_block_group' = Append(eleven_labs_speech_block_group, i)
    /\ i' = i + 1
    /\ UNCHANGED <<registryVars, argVars, pc, audio_segments, flushVars, calls, flushes,
                   result>>

\* Mutant of EnterFlush: the request ids and the audio of the flushes before
\* are still there when generate_eleven_labs_audio_group is entered (they are
\* kept on the object).
EnterFlush_KeepHistory(site) ==
    /\ pc' = "flush"
    /\ ret' = site
    /\ j' = 1
    /\ flushes' = Append(flushes, eleven_labs_speech_block_group)
    /\ UNCHANGED <<registryVars, argVars, i, eleven_labs_speech_block_group,
                   audio_segments, calls, result, previous_request_ids,
                   eleven_labs_audio_segments>>

\* generate_eleven_labs_audio_group(group) is entered from one of its three
\* call sites.
EnterFlush(site) ==
    /\ pc' = "flush"
    /\ ret' = site
    /\ j' = 1
    /\ previous_request_ids' = <<>>
    /\ eleven_labs_audio_segments' = <<>>
    /\ flushes' = Append(flushes, eleven_labs_speech_block_group)
    /\ UNCHANGED <<registryVars, argVars, i, eleven_labs_speech_block_group,
                   audio_segments, calls, result>>

\* An ElevenLabs block of another voice than the group's: the group is flushed.
ScanVoiceChange ==
    /\ pc = "scan" /\ i <= Len(speech_blocks) /\ request_stitching
    /\ speech_blocks[i].voice_id \in DOMAIN voices
    /\ is_eleven_labs_voice(i)
    /\ ~should_group_speech_block(eleven_labs_speech_block_group, i)
    /\ EnterFlush("regroup")

\* A block of the other platform: the group (possibly empty) is flushed, then
\* the block is generated on its own.
ScanOtherPlatform ==
    /\ pc = "scan" /\ i <= Len(speech_blocks) /\ request_stitching
    /\ speech_blocks[i].voice_id \in DOMAIN voices
    /\ ~is_eleven_labs_voice(i)
    /\ EnterFlush("standalone")

\* request_stitching is off: every block goes through generate_speech.
ScanNoStitching ==
    /\ pc = "scan" /\ i <= Len(speech_blocks) /\ ~request_stitching
    /\ GenerateSpeechBlock

\* The block of the other platform, after the flush that preceded it.
GenerateStandalone ==
    /\ pc = "standalone"
    /\ GenerateSpeechBlock

\* The loop is over: what remains in the group is flushed, outside the try.
ScanEnd ==
    /\ pc = "scan" /\ i > Len(speech_blocks)
    /\ IF Len(eleven_labs_speech_block_group) > 0
       THEN EnterFlush("remaining")
       ELSE /\ pc' = "finish"
            /\ UNCHANGED <<registryVars, argVars, i, eleven_labs_speech_block_group,
                           audio_segments, flushVars, calls, flushes, result>>

(* -------------------- generate_eleven_labs_audio_group ---------------- *)

TextsOf(positions) == [k \in 1..Len(positions) |-> speech_blocks[positions[k]].text]

\* Mutant of PreviousText: the text is left out when it is falsy, so an empty
\* previous text is sent as no previous text.
PreviousText_Truthy(group, k) ==
    IF k = 1 \/ Join(TextsOf(Prefix(group, k - 1))) = "" THEN None
    ELSE Some(Join(TextsOf(Prefix(group, k - 1))))

\* None if is_first else " ".join(sb.text for sb in group[:i])
PreviousText(group, k) ==
    IF k = 1 THEN None ELSE Some(Join(TextsOf(Prefix(group, k - 1))))

\* None if is_last else " ".join(sb.text for sb in group[i+1:])
NextText(group, k) ==
    IF k = Len(group) THEN None ELSE Some(Join(TextsOf(Suffix(group, k))))

\* Mutant of RecentRequestIds: the three oldest ids, previous_request_ids[:3].
RecentRequestIds_Oldest(ids) == IF Len(ids) <= StitchWindow THEN ids ELSE SubSeq(ids, 1, StitchWindow)

\* previous_request_ids=previous_request_ids[-3:]
RecentRequestIds(ids) == LastN(ids, StitchWindow)

\* The flush of the remaining group runs after the try statement: what it
\* raises is not wrapped; the two flushes of the scan run inside the try.
FlushError(site, e) == IF site = "remaining" THEN e ELSE Wrapped(e)

\* One iteration of the loop of generate_eleven_labs_audio_group: the call for
\* the k-th block of the group, with the texts around it and the recent
\* request ids of this flush.
FlushCall ==
    /\ pc = "flush" /\ j <= Len(eleven_labs_speech_block_group)
    /\ LET group == eleven_labs_speech_block_group
           pos == group[j]
           block == speech_blocks[pos]
           n == Len(calls) + 1
       IN  IF block.voice_id \notin DOMAIN voices
           THEN Raise(FlushError(ret, KeyErrorOf(block.voice_id)), calls)
           ELSE LET voice == voices[block.voice_id]
                    request == ElevenLabsRequest(pos, voice, block.text,
                                                 PreviousText(group, j), NextText(group, j),
                                                 Some(RecentRequestIds(previous_request_ids)))
                IN  \E r \in Replayed(ElevenLabsResponses, n) :
                      LET call == CallRecord(request, r, n, "flush", Len(flushes), j)
                      IN  IF ResponseAccepted(r)
                          THEN /\ eleven_labs_audio_segments' =
                                     Append(eleven_labs_audio_segments,
                                            [audio |-> CreateAudioSegment(n, r.clip),
                                             request_id |-> RequestIdOf(n)])
                               /\ previous_request_ids' = Append(previous_request_ids, RequestIdOf(n))
                               /\ j' = j + 1
                               /\ calls' = Append(calls, call)
                               /\ UNCHANGED <<registryVars, argVars, pc, i, ret, result, flushes,
                                              eleven_labs_speech_block_group, audio_segments>>
                          ELSE Raise(FlushError(ret, AdapterError(ELEVENLABS, r.outcome)),
                                     Append(calls, call))

\* The group list after the flush made at a call site: the voice-change site
\* clears it and appends the new block; the other-platform site leaves it as
\* it is.
GroupAfterFlush(site, group, pos) == IF site = "regroup" THEN <<pos>> ELSE group

\* generate_eleven_labs_audio_group returns: the caller extends audio_segments
\* with the audio of each pair and goes on.
FlushReturn ==
    /\ pc = "flush" /\ j > Len(eleven_labs_speech_block_group)
    /\ audio_segments' = audio_segments \o
          [k \in 1..Len(eleven_labs_audio_segments) |-> eleven_labs_audio_segments[k].audio]
    /\ eleven_labs_speech_block_group' = GroupAfterFlush(ret, eleven_labs_speech_block_group, i)
    /\ pc' = CASE ret = "regroup" -> "scan"
               [] ret = "standalone" -> "standalone"
               [] OTHER -> "finish"
    /\ i' = IF ret = "regroup" THEN i + 1 ELSE i
    /\ UNCHANGED <<registryVars, argVars, flushVars, calls, flushes, result>>

(* ------------------------------ the result ---------------------------- *)

\* Mutant of Combine: each audio is put in front of what was combined so far
\* (combined_audio = audio + combined_audio).
RECURSIVE Combine_InFront(_, _)
Combine_InFront(combined_audio, segs) ==
    IF Len(segs) = 0 THEN combined_audio
    ELSE Combine_InFront(<<segs[1]>> \o combined_audio, Tail(segs))

\* combined_audio = AudioSegment.empty(); combined_audio += audio, in order:
\* a buffer is the sequence of the pieces it was concatenated from.
RECURSIVE Combine(_, _)
Combine(combined_audio, segs) ==
    IF Len(segs) = 0 THEN combined_audio
    ELSE Combine(Append(combined_audio, segs[1]), Tail(segs))

\* Normalization and the return statement of generate_speech_list.
Finish ==
    /\ pc = "finish"
    /\ LET normalized == normalize_audio(audio_segments, normalize_outputs)
       IN  IF ~normalized.ok
           THEN Raise(normalized.error, calls)
           ELSE /\ result' = IF single_output
                             THEN [kind |-> "audio", pieces |-> Combine(<<>>, normalized.value)]
                             ELSE [kind |-> "list", items |-> normalized.value]
                /\ pc' = "done"
                /\ UNCHANGED <<registryVars, argVars, i, eleven_labs_speech_block_group,
                               audio_segments, flushVars, calls, flushes>>

Next ==
    \/ \E blocks \in InputBlocks, single, normalize, stitching \in BOOLEAN :
          GenerateSpeechList(blocks, single, normalize, stitching)
    \/ ScanUnknownVoice
    \/ ScanGroup
    \/ ScanVoiceChange
    \/ ScanOtherPlatform
    \/ ScanNoStitching
    \/ GenerateStandalone
    \/ ScanEnd
    \/ FlushCall
    \/ FlushReturn
    \/ Finish
    \/ Return

Spec == Init /\ [][Next]_vars

(* ------------------------------ registry ------------------------------ *)

\* Another voice under the identifier of VoiceE1, and another under that of
\* VoiceO1.
VoiceE1b == [id |-> "e1", platform |-> OPENAI, voice_model |-> "tts-1-hd", voice |-> "nova"]

VoiceO1b == [id |-> "o1", platform |-> OPENAI, voice_model |-> "tts-1", voice |-> "echo"]

VoicePool == {VoiceE1, VoiceE1b, VoiceE2, VoiceO1, VoiceO1b}

\* The lists of voices the constructor and initialize_voices are given: an
\* identifier may repeat within a list.
VoiceLists == SeqsUpTo(VoicePool, MaxVoices)

\* The state after TTS(voices), for any list of voices.
InitRegistry ==
    /\ \E vs \in VoiceLists :
          /\ voices = UpsertMany(EmptyRegistry, vs)
          /\ voice_order = OrderAfterUpsertMany(<<>>, vs)
    /\ openai_client \in BOOLEAN
    /\ elevenlabs_client \in BOOLEAN
    /\ pc = "idle"
    /\ op = "none"
    /\ arg = None
    /\ speech_blocks = <<>>
    /\ single_output = TRUE
    /\ normalize_outputs = TRUE
    /\ request_stitching = TRUE
    /\ i = 1
    /\ eleven_labs_speech_block_group = <<>>
    /\ audio_segments = <<>>
    /\ ret = "none"
    /\ j = 1
    /\ previous_request_ids = <<>>
    /\ eleven_labs_audio_segments = <<>>
    /\ calls = <<>>
    /\ flushes = <<>>
    /\ result = NoResult
    /\ last = None

\* A method that returns None has returned.
ReturnedNone == [kind |-> "None"]

\* raise KeyError(f"Voice with ID '{id}' not found")
VoiceIdNotFound(id) ==
    [type |-> "KeyError", msg |-> "Voice with ID '{id}' not found",
     mentions |-> {<<"voice_id", id>>}]

\* del self.voices[id]
Delete(reg, id) == [k \in DOMAIN reg \ {id} |-> reg[k]]

OrderAfterDelete(order, id) == SelectSeq(order, LAMBDA k : k # id)

\* What does not belong to the registry methods.
callVars == <<speech_blocks, single_output, normalize_outputs, request_stitching, i,
              eleven_labs_speech_block_group, audio_segments, flushVars, calls, flushes,
              last>>

\* initialize_voices(voices)
InitializeVoices(vs) ==
    /\ pc = "idle"
    /\ pc' = "done"
    /\ op' = "initialize_voices"
    /\ arg' = Some(vs)
    /\ voices' = UpsertMany(voices, vs)
    /\ voice_order' = OrderAfterUpsertMany(voice_order, vs)
    /\ result' = ReturnedNone
    /\ UNCHANGED <<openai_client, elevenlabs_client, callVars>>

\* add_voice(voice)
AddVoice(v) ==
    /\ pc = "idle"
    /\ pc' = "done"
    /\ op' = "add_voice"
    /\ arg' = Some(v)
    /\ voices' = Upsert(voices, v)
    /\ voice_order' = OrderAfterUpsert(voice_order, v)
    /\ result' = ReturnedNone
    /\ UNCHANGED <<openai_client, elevenlabs_client, callVars>>

\* Mutant of RemoveVoice: an identifier that is not registered is ignored
\* (self.voices.pop(id, None)).
RemoveVoice_Discard(id) ==
    /\ pc = "idle"
    /\ pc' = "done"
    /\ op' = "remove_voice"
    /\ arg' = Some(id)
    /\ voices' = Delete(voices, id)
    /\ voice_order' = OrderAfterDelete(voice_order, id)
    /\ result' = ReturnedNone
    /\ UNCHANGED <<openai_client, elevenlabs_client, callVars>>

\* remove_voice(id)
RemoveVoice(id) ==
    /\ pc = "idle"
    /\ pc' = "done"
    /\ op' = "remove_voice"
    /\ arg' = Some(id)
    /\ IF id \notin DOMAIN voices
       THEN /\ result' = Raised(VoiceIdNotFound(id))
            /\ UNCHANGED <<voices, voice_order>>
       ELSE /\ voices' = Delete(voices, id)
            /\ voice_order' = OrderAfterDelete(voice_order, id)
            /\ result' = ReturnedNone
    /\ UNCHANGED <<openai_client, elevenlabs_client, callVars>>

\* list_voices(): list(self.voices.values())
ListVoices ==
    /\ pc = "idle"
    /\ pc' = "done"
    /\ op' = "list_voices"
    /\ arg' = None
    /\ result' = [kind |-> "list",
                  items |-> [k \in 1..Len(voice_order) |-> voices[voice_order[k]]]]
    /\ UNCHANGED <<registryVars, callVars>>

\* The speech blocks generate_speech is called with.
SingleBlocks == {SpeechBlock(id, 2) : id \in VoiceIds}

\* The public generate_speech(speech_block): resolve the voice, dispatch on its
\* platform, call the adapter and decode; what is raised reaches the caller as
\* it is.
GenerateSpeech(block) ==
    /\ pc = "idle"
    /\ pc' = "done"
    /\ op' = "generate_speech"
    /\ arg' = Some(block)
    /\ IF block.voice_id \notin DOMAIN voices
       THEN /\ result' = Raised(VoiceNotFound(block.voice_id))
            /\ calls' = calls
       ELSE LET voice == voices[block.voice_id]
                responses == IF voice.platform = OPENAI THEN OpenAIResponses
                             ELSE ElevenLabsResponses
            IN  IF voice.platform \notin {OPENAI, ELEVENLABS}
                THEN /\ result' = Raised(UnsupportedPlatform(voice.platform))
                     /\ calls' = calls
                ELSE \E r \in responses :
                       /\ calls' = Append(calls,
                                          CallRecord(GenerateSpeechRequest(0, voice, block.text),
                                                     r, Len(calls) + 1,
                                                     "generate_speech", 0, 0))
                       /\ result' = IF ResponseAccepted(r)
                                    THEN [kind |-> "audio",
                                          pieces |-> <<CreateAudioSegment(Len(calls) + 1, r.clip)>>]
                                    ELSE Raised(AdapterError(voice.platform, r.outcome))
    /\ UNCHANGED <<registryVars, speech_blocks, single_output, normalize_outputs,
                   request_stitching, i, eleven_labs_speech_block_group,
                   audio_segments, flushVars, flushes, last>>

NextRegistry ==
    \/ \E vs \in VoiceLists : InitializeVoices(vs)
    \/ \E v \in VoicePool : AddVoice(v)
    \/ \E id \in VoiceIds : RemoveVoice(id)
    \/ ListVoices
    \/ \E block \in SingleBlocks : GenerateSpeech(block)
    \/ Return

SpecRegistry == InitRegistry /\ [][NextRegistry]_vars

(* ---------------------- normalize_audio, called directly -------------- *)

\* The loudness values of the segments normalize_audio is given: ranges below,
\* at and above 2 * tolerance, halves included.
Loudness == {RInt(-40), Rat(-69, 2), RInt(-34), RInt(-20)}

\* The k-th AudioSegment of a list.
Segment(k, level) == [call |-> k, dBFS |-> level, ms |-> k]

\* The request_id paired with the k-th segment: Optional[str].
TokenAt(k) == IF k % 2 = 0 THEN None ELSE Some(RequestIdOf(k))

\* The k-th item of a list: an AudioSegment, or a tuple (AudioSegment, request_id).
SegmentItems(k) ==
    {Segment(k, level) : level \in Loudness}
    \cup {Tuple(Segment(k, level), TokenAt(k)) : level \in Loudness}

RECURSIVE ItemLists(_)
ItemLists(n) ==
    IF n = 0 THEN {<<>>}
    ELSE {Append(s, item) : s \in ItemLists(n - 1), item \in SegmentItems(n)}

NormalizeInputs == UNION {ItemLists(n) : n \in 0..MaxSegments}

\* What a call of normalize_audio ends with.
NormalizeResult(segs, normalize) ==
    LET r == normalize_audio(segs, normalize)
    IN  IF r.ok THEN [kind |-> "list", items |-> r.value] ELSE Raised(r.error)

\* The public normalize_audio(audio_segments, normalize_outputs), with the
\* default target_dBFS and tolerance.
NormalizeAudio(segs, normalize) ==
    /\ pc = "idle"
    /\ pc' = "done"
    /\ op' = "normalize_audio"
    /\ arg' = Some(1)
    /\ audio_segments' = segs
    /\ normalize_outputs' = normalize
    /\ result' = NormalizeResult(segs, normalize)
    /\ UNCHANGED <<registryVars, speech_blocks, single_output, request_stitching, i,
                   eleven_labs_speech_block_group, flushVars, calls, flushes, last>>

\* The caller passes the list normalize_audio returned to normalize_audio
\* again.
NormalizeAgain ==
    /\ pc = "done" /\ op = "normalize_audio"
    /\ arg = Some(1)
    /\ result.kind = "list"
    /\ arg' = Some(2)
    /\ audio_segments' = result.items
    /\ result' = NormalizeResult(result.items, normalize_outputs)
    /\ UNCHANGED <<registryVars, pc, op, speech_blocks, single_output, normalize_outputs,
                   request_stitching, i, eleven_labs_speech_block_group, flushVars,
                   calls, flushes, last>>

NextNormalize ==
    \/ \E segs \in NormalizeInputs, normalize \in BOOLEAN : NormalizeAudio(segs, normalize)
    \/ NormalizeAgain
    \/ Return

SpecNormalize == Init /\ [][NextNormalize]_vars

(* -------------------- successive calls on one object --------------- *)

\* The inputs of a call that is made a second time.
RepeatInputs == {BlocksOf(ids) : ids \in SeqsUpTo(VoiceIds, MaxRepeat)}

\* What the caller keeps of the invocation that is over: its arguments, the
\* provider calls it made with their responses, and its outcome.
Invocation ==
    [speech_blocks |-> speech_blocks, single_output |-> single_output,
     normalize_outputs |-> normalize_outputs, request_stitching |-> request_stitching,
     calls |-> calls, flushes |-> flushes, result |-> result]

\* A first call of generate_speech_list.
GenerateSpeechListFirst(blocks, single, normalize, stitching) ==
    /\ last = None
    /\ GenerateSpeechList(blocks, single, normalize, stitching)

\* generate_speech_list has returned or raised, and the caller keeps what it
\* got.
ReturnKept ==
    /\ op = "generate_speech_list"
    /\ last = None
    /\ Returns(Some(Invocation))

\* The caller calls generate_speech_list again on the same object, with the
\* same blocks, normalize_outputs and request_stitching.
GenerateSpeechListAgain(single) ==
    /\ last # None
    /\ GenerateSpeechList(last[1].speech_blocks, single, last[1].normalize_outputs,
                          last[1].request_stitching)

\* generate_speech and normalize_audio called on their own, by a caller that
\* kept nothing.
GenerateSpeechAlone(block) == last = None /\ GenerateSpeech(block)

NormalizeAudioAlone ==
    /\ pc = "idle" /\ last = None
    /\ \E segs \in NormalizeInputs, normalize \in BOOLEAN : NormalizeAudio(segs, normalize)

NextTwice ==
    \/ \E blocks \in RepeatInputs, single, normalize, stitching \in BOOLEAN :
          GenerateSpeechListFirst(blocks, single, normalize, stitching)
    \/ \E single \in BOOLEAN : GenerateSpeechListAgain(single)
    \/ ScanUnknownVoice
    \/ ScanGroup
    \/ ScanVoiceChange
    \/ ScanOtherPlatform
    \/ ScanNoStitching
    \/ GenerateStandalone
    \/ ScanEnd
    \/ FlushCall
    \/ FlushReturn
    \/ Finish
    \/ \E block \in SingleBlocks : GenerateSpeechAlone(block)
    \/ NormalizeAudioAlone
    \/ NormalizeAgain
    \/ ReturnKept
    \/ Return

SpecTwice == Init /\ [][NextTwice]_vars

(* ------------------------- vocabulary of the claims ------------------- *)

Done == pc = "done"

Succeeded == pc = "done" /\ result.kind # "error"

Failed == pc = "done" /\ result.kind = "error"

N == Len(speech_blocks)

AllVoicesResolve == \A k \in 1..N : speech_blocks[k].voice_id \in DOMAIN voices

\* The input is a run of blocks of one ElevenLabs voice.
SameElevenLabsVoice ==
    /\ N >= 1
    /\ AllVoicesResolve
    /\ \A k \in 1..N : speech_blocks[k].voice_id = speech_blocks[1].voice_id
    /\ voices[speech_blocks[1].voice_id].platform = ELEVENLABS

\* The calls made for the block at a position.
CallsFor(k) == {m \in 1..Len(calls) : calls[m].pos = k}

LastCallFailed == Len(calls) > 0 /\ calls[Len(calls)].outcome # "ok"

\* The audio is what the adapter call for the block at position k returned.
SynthesisOf(audio, k) ==
    /\ audio.call \in 1..Len(calls)
    /\ calls[audio.call].pos = k
    /\ calls[audio.call].text = speech_blocks[k].text
    /\ calls[audio.call].voice = voices[speech_blocks[k].voice_id].voice

(* -------------------------------- C1 ---------------------------------- *)
\* C1: when every voice resolves and every provider call succeeds,
\* generate_speech_list(single_output=False) returns a list with exactly one
\* audio per input block, the k-th audio being the synthesis of the k-th block.
C1_OneAudioPerBlock ==
    (Succeeded /\ result.kind = "list" /\ N >= 1) =>
        /\ Len(result.items) = N
        /\ \A k \in 1..N : SynthesisOf(result.items[k], k)

(* -------------------------------- C2 ---------------------------------- *)
\* C2: with request_stitching on, a flushed group is cleared before the scan
\* continues, so that a successful call sends every input block to a provider
\* exactly once: as many provider calls as input blocks.
C2_EveryBlockSentOnce ==
    (Succeeded /\ request_stitching) =>
        /\ Len(calls) = N
        /\ \A k \in 1..N : Cardinality(CallsFor(k)) = 1

(* -------------------------------- C3 ---------------------------------- *)
\* C3: with request_stitching on, an input of N consecutive blocks of one
\* ElevenLabs voice causes exactly one group flush, of a group of size N (the
\* whole input, in order), and no standalone generate_speech call.
C3_OneFlushOfSizeN ==
    (Done /\ request_stitching /\ SameElevenLabsVoice) =>
        /\ flushes = << [k \in 1..N |-> k] >>
        /\ \A m \in 1..Len(calls) : calls[m].via = "flush"
        /\ (Succeeded => Len(calls) = N)

C3_Witness ==
    /\ Succeeded /\ request_stitching /\ SameElevenLabsVoice
    /\ N = MaxRun
    /\ Len(flushes) = 1 /\ Len(flushes[1]) = N

(* -------------------------------- C4 ---------------------------------- *)
\* C4: with request_stitching off, a successful call over N blocks makes
\* exactly N provider calls, one per block in input order, all through
\* generate_speech, and no call (of a failed invocation either) carries
\* previous_text, next_text or previous_request_ids.
C4_NoStitchingNoContext ==
    (pc # "idle" /\ ~request_stitching) =>
        /\ flushes = <<>>
        /\ \A m \in 1..Len(calls) :
              /\ calls[m].pos = m
              /\ calls[m].via = "generate_speech"
              /\ calls[m].previous_text = None
              /\ calls[m].next_text = None
              /\ calls[m].previous_request_ids = None
        /\ (Succeeded => Len(calls) = N)

C4_Witness ==
    /\ Succeeded /\ ~request_stitching /\ N = 3
    /\ speech_blocks[1].voice_id = "e1"
    /\ speech_blocks[2].voice_id = "e1"
    /\ speech_blocks[3].voice_id = "e1"
    /\ Len(calls) = 3

(* -------------------------------- C5 ---------------------------------- *)

\* The texts joined by single spaces, built from the left.
RECURSIVE SpaceJoined(_, _)
SpaceJoined(texts, n) ==
    IF n = 0 THEN ""
    ELSE IF n = 1 THEN texts[1]
    ELSE SpaceJoined(texts, n - 1) \o " " \o texts[n]

FlushCalls == {m \in 1..Len(calls) : calls[m].via = "flush"}

\* C5: in a group flush over blocks with texts T0..T(n-1), the call for the
\* block at index i receives previous_text = T0 .. T(i-1) joined by spaces and
\* next_text = T(i+1) .. T(n-1) joined by spaces; previous_text is absent (not
\* the empty string) exactly for the first block and next_text exactly for the
\* last one.
C5_NeighbourTexts ==
    \A m \in FlushCalls :
        LET c == calls[m]
            group == flushes[c.flush]
            texts == [k \in 1..Len(group) |-> speech_blocks[group[k]].text]
            before == [k \in 1..(c.k - 1) |-> texts[k]]
            after == [k \in 1..(Len(group) - c.k) |-> texts[c.k + k]]
        IN  /\ c.k \in 1..Len(group)
            /\ c.text = texts[c.k]
            /\ c.previous_text = IF c.k = 1 THEN None ELSE Some(SpaceJoined(before, Len(before)))
            /\ c.next_text = IF c.k = Len(group) THEN None ELSE Some(SpaceJoined(after, Len(after)))
            /\ (c.previous_text = None <=> c.k = 1)
            /\ (c.next_text = None <=> c.k = Len(group))

\* The third call of a flush of five blocks "", "b", "c", "d", "e", and the
\* second call, whose previous text is the empty string and not absent.
C5_Witness ==
    /\ Succeeded
    /\ \E m \in FlushCalls :
          /\ calls[m].k = 3 /\ Len(flushes[calls[m].flush]) = 5
          /\ calls[m].previous_text = Some(" b")
          /\ calls[m].next_text = Some("d e")
    /\ \E m \in FlushCalls : calls[m].k = 2 /\ calls[m].previous_text = Some("")

(* -------------------------------- C6 ---------------------------------- *)

\* C6: in a group flush the call for the block at index i carries exactly the
\* request ids returned by the min(i, 3) calls right before it in the same
\* flush, in call order; the first call of every flush carries none.
C6_RequestIdWindow ==
    \A m \in FlushCalls :
        LET c == calls[m]
            w == IF c.k - 1 < 3 THEN c.k - 1 ELSE 3
        IN  /\ m > w
            /\ \A t \in 1..w :
                  /\ calls[m - t].via = "flush"
                  /\ calls[m - t].flush = c.flush
                  /\ calls[m - t].k = c.k - t
                  /\ calls[m - t].request_id # None
            /\ c.previous_request_ids =
                  IF c.k = 1 THEN None
                  ELSE Some([t \in 1..w |-> calls[m - w + t - 1].request_id[1]])

\* The fifth call of a flush carries the ids of its calls 2, 3 and 4 and not
\* the id of its call 1.
C6_Witness ==
    /\ Succeeded
    /\ \E m \in FlushCalls :
          /\ calls[m].k = 5
          /\ calls[m].previous_request_ids =
                Some(<<calls[m - 3].request_id[1], calls[m - 2].request_id[1],
                       calls[m - 1].request_id[1]>>)
          /\ calls[m - 4].k = 1
          /\ \A t \in 1..3 : calls[m].previous_request_ids[1][t] # calls[m - 4].request_id[1]

(* -------------------------------- C7 ---------------------------------- *)

\* The length of a buffer: the sum of the lengths of its pieces.
RECURSIVE SumMs(_)
SumMs(pieces) == IF Len(pieces) = 0 THEN 0 ELSE pieces[1].ms + SumMs(Tail(pieces))

\* The length of the audio synthesized for the block at position k.
SynthesizedMs(k) ==
    LET m == CHOOSE x \in CallsFor(k) : \A y \in CallsFor(k) : x <= y
        a == CHOOSE x \in 1..Len(audio_segments) : audio_segments[x].call = m
    IN  audio_segments[a].ms

RECURSIVE ExpectedMs(_, _)
ExpectedMs(k, inter_block_buffer_ms) ==
    IF k = 0 THEN 0
    ELSE ExpectedMs(k - 1, inter_block_buffer_ms)
         + SynthesizedMs(k) + speech_blocks[k].buffer
         + (IF k < N THEN inter_block_buffer_ms ELSE 0)

\* C7: generate_speech_list(single_output=True) returns one buffer whose
\* duration is the sum of the durations of the per-block synthesized audio
\* plus the inserted silences: each block's own buffer after its audio, and
\* the global inter-block buffer (0 when not given) after every block but the
\* last.
C7_CombinedDuration ==
    (Succeeded /\ result.kind = "audio" /\ N >= 1) =>
        SumMs(result.pieces) = ExpectedMs(N, 0)

(* -------------------------------- C8 ---------------------------------- *)

\* C8: every failure of a provider call made during generate_speech_list
\* (non-success response, missing request id, uninitialized client) reaches the
\* caller as the wrapped "Error generating speech for block" error.
C8_FailuresAreWrapped ==
    (Failed /\ LastCallFailed
        /\ calls[Len(calls)].outcome \in {"http_error", "no_request_id", "no_client"}) =>
        result.error = Wrapped(AdapterError(calls[Len(calls)].provider, calls[Len(calls)].outcome))

(* -------------------------------- C9 ---------------------------------- *)

\* C9: when the provider call for the block at position k fails, the error
\* raised names block k, by its position or by its text.
C9_ErrorNamesFailingBlock ==
    (Failed /\ LastCallFailed) =>
        LET k == calls[Len(calls)].pos
        IN  \/ <<"position", k>> \in result.error.mentions
            \/ <<"text", speech_blocks[k].text>> \in result.error.mentions

(* -------------------------------- C10 --------------------------------- *)

\* C10: generate_speech_list stops at the first failing provider call: no call
\* follows a failed call (so it is not retried either), and the invocation
\* ends with an error, returning no audio.
C10_StopsAtFirstFailure ==
    /\ \A m \in 1..(Len(calls) - 1) : calls[m].outcome = "ok"
    /\ LastCallFailed => (Failed /\ result.kind \notin {"audio", "list"})

\* A call fails after earlier calls produced audio and with blocks left to
\* scan.
C10_Witness ==
    /\ Failed /\ LastCallFailed
    /\ Len(calls) >= 2
    /\ Len(audio_segments) >= 1
    /\ i < N

\* The call in progress or just over failed on a block whose voice is not
\* registered: the block generate_speech was given, or the block the scan of
\* generate_speech_list stands on.
FailsOnUnresolvedVoice ==
    /\ Done /\ Failed
    /\ \/ op = "generate_speech" /\ arg[1].voice_id \notin DOMAIN voices
       \/ /\ op = "generate_speech_list"
          /\ i <= N
          /\ speech_blocks[i].voice_id \notin DOMAIN voices

\* C11: when synthesis fails on a block whose voice identifier is not in the
\* registry, no provider call has been issued: none by generate_speech, and
\* none by generate_speech_list since it was called, with request_stitching on
\* or off.
C11_NotFoundBeforeAnyCall == FailsOnUnresolvedVoice => calls = <<>>

\* C12: generate_speech_list called with no block at all fails, whatever
\* single_output, normalize_outputs and request_stitching are: it returns
\* neither an empty audio nor an empty list.
C12_EmptyInputFails ==
    (Done /\ op = "generate_speech_list" /\ N = 0)
        => (Failed /\ result.kind \notin {"audio", "list"})

(* ------------------------ claims on normalize_audio ------------------- *)

REq(a, b) == a[1] * b[2] = b[1] * a[2]

RLeq(a, b) == a[1] * b[2] <= b[1] * a[2]

IsPair(item) == "request_id" \in DOMAIN item

AudioOf(item) == IF IsPair(item) THEN item.audio ELSE item

\* A call of normalize_audio is over.
NormalizeOver == pc = "done" /\ op = "normalize_audio"

\* normalize_audio has normalized a list of at least one item.
Normalized ==
    /\ NormalizeOver /\ normalize_outputs
    /\ Len(audio_segments) >= 1
    /\ result.kind = "list"
    /\ Len(result.items) = Len(audio_segments)

Items == 1..Len(audio_segments)

InLevel(k) == AudioOf(audio_segments[k]).dBFS

OutLevel(k) == AudioOf(result.items[k]).dBFS

Quietest(k) == \A m \in Items : RLeq(InLevel(k), InLevel(m))

Loudest(k) == \A m \in Items : RLeq(InLevel(m), InLevel(k))

WideRange ==
    \E a, b \in Items : RLess(RInt(2 * tolerance), RSub(InLevel(a), InLevel(b)))

WindowLow == RInt(target_dBFS - tolerance)

WindowHigh == RInt(target_dBFS + tolerance)

\* C13: when the loudness range of the list is strictly greater than
\* 2 * tolerance, every loudness of the result is within
\* [target - tolerance, target + tolerance], a quietest buffer is at exactly
\* target - tolerance, a loudest one at exactly target + tolerance, and a buffer
\* that was louder than another is not quieter than it afterwards.
C13_WideRangeCompressed ==
    (Normalized /\ WideRange) =>
        \A k \in Items :
            /\ RLeq(WindowLow, OutLevel(k)) /\ RLeq(OutLevel(k), WindowHigh)
            /\ Quietest(k) => REq(OutLevel(k), WindowLow)
            /\ Loudest(k) => REq(OutLevel(k), WindowHigh)
            /\ \A m \in Items : RLess(InLevel(m), InLevel(k)) => RLeq(OutLevel(m), OutLevel(k))

\* A list of wide range with a buffer strictly between the extremes.
C13_Witness ==
    /\ Normalized /\ WideRange
    /\ \E k \in Items : ~Quietest(k) /\ ~Loudest(k)

\* C14: when the loudness range of the list is at most 2 * tolerance, every
\* buffer gets the gain target - (max + min) / 2: the differences between the
\* loudness of any two buffers are unchanged and the midpoint of the extremes
\* is exactly at the target.
C14_TightRangeRecentered ==
    (Normalized /\ ~WideRange) =>
        \A a, b \in Items :
            (Loudest(a) /\ Quietest(b)) =>
                /\ \A k \in Items :
                       REq(RSub(OutLevel(k), InLevel(k)),
                           RSub(RInt(target_dBFS),
                                RDiv(RAdd(InLevel(a), InLevel(b)), RInt(2))))
                /\ \A k, m \in Items :
                       REq(RSub(OutLevel(k), OutLevel(m)), RSub(InLevel(k), InLevel(m)))
                /\ REq(RDiv(RAdd(OutLevel(a), OutLevel(b)), RInt(2)), RInt(target_dBFS))

\* A list whose range is exactly 2 * tolerance, away from the target.
C14_Witness ==
    /\ Normalized /\ ~WideRange
    /\ \E a, b \in Items :
          /\ REq(RSub(InLevel(a), InLevel(b)), RInt(2 * tolerance))
          /\ ~REq(OutLevel(a), InLevel(a))

\* C15: a list of one buffer comes back as one buffer whose loudness is
\* exactly the target level.
C15_SingleBufferToTarget ==
    (Normalized /\ Len(audio_segments) = 1) => REq(OutLevel(1), RInt(target_dBFS))

\* One buffer that was not at the target level.
C15_Witness ==
    /\ Normalized /\ Len(audio_segments) = 1
    /\ ~REq(InLevel(1), RInt(target_dBFS))

\* C16: every loudness of a normalized list is within target +- tolerance, and
\* normalizing the returned list again takes the recentering branch and
\* changes no loudness.
C16_Idempotent ==
    Normalized =>
        /\ \A k \in Items : RLeq(WindowLow, OutLevel(k)) /\ RLeq(OutLevel(k), WindowHigh)
        /\ arg = Some(2) => (~WideRange /\ \A k \in Items : REq(OutLevel(k), InLevel(k)))

\* A second pass over a list the first pass compressed: its range is exactly
\* 2 * tolerance and one loudness is a value only the compression produces.
C16_Witness ==
    /\ Normalized /\ arg = Some(2)
    /\ \E a, b \in Items : REq(RSub(InLevel(a), InLevel(b)), RInt(2 * tolerance))
    /\ \E k \in Items : InLevel(k)[2] = 20

\* C17: the list normalize_audio returns has as many items as the one it was
\* given; its k-th item is the k-th item given, with its gain applied; an item
\* given as a pair (audio, token) comes back as a pair with the same token.
C17_LengthOrderTokens ==
    (NormalizeOver /\ result.kind = "list") =>
        /\ Len(result.items) = Len(audio_segments)
        /\ \A k \in 1..Len(audio_segments) :
              IF k > Len(result.items) THEN FALSE
              ELSE /\ IsPair(result.items[k]) = IsPair(audio_segments[k])
                   /\ AudioOf(result.items[k]).call = AudioOf(audio_segments[k]).call
                   /\ AudioOf(result.items[k]).ms = AudioOf(audio_segments[k]).ms
                   /\ IF IsPair(audio_segments[k]) /\ IsPair(result.items[k])
                      THEN result.items[k].request_id = audio_segments[k].request_id
                      ELSE TRUE
                   /\ ~normalize_outputs => result.items[k] = audio_segments[k]

\* A list of a pair with a token, a pair without one and a plain audio, all
\* three changed by the normalization.
C17_Witness ==
    /\ Normalized /\ Len(audio_segments) = 3
    /\ IsPair(audio_segments[1]) /\ audio_segments[1].request_id # None
    /\ IsPair(audio_segments[2]) /\ audio_segments[2].request_id = None
    /\ ~IsPair(audio_segments[3])
    /\ \A k \in Items : ~REq(OutLevel(k), InLevel(k))

(* ------------------------- claims on the registry --------------------- *)

\* The voices given to the add_voice or initialize_voices call that a step
\* makes, in the order given.
GivenVoices == IF op' = "add_voice" THEN <<arg'[1]>> ELSE arg'[1]

GivenIds == {GivenVoices[k].id : k \in 1..Len(GivenVoices)}

\* What C18 says of a step that calls remove_voice.
RemoveVoiceStep ==
    LET id == arg'[1]
    IN  IF id \notin DOMAIN voices
        THEN /\ result'.kind = "error"
             /\ result'.error.type = "KeyError"
             /\ <<"voice_id", id>> \in result'.error.mentions
             /\ voices' = voices
             /\ voice_order' = voice_order
        ELSE /\ result'.kind # "error"
             /\ DOMAIN voices' = DOMAIN voices \ {id}
             /\ \A k \in DOMAIN voices' : voices'[k] = voices[k]

\* C18: remove_voice(id) fails with a not-found error and leaves the registry
\* as it was when id is not registered; when id is registered it removes that
\* entry and leaves every other entry as it was.
C18_RemoveVoice == [][(pc = "idle" /\ op' = "remove_voice") => RemoveVoiceStep]_vars

\* remove_voice has failed on an identifier that is not registered, in a
\* registry that holds other voices.
C18_Witness ==
    /\ pc = "done" /\ op = "remove_voice"
    /\ result.kind = "error"
    /\ arg[1] \notin DOMAIN voices
    /\ DOMAIN voices # {}

\* What C19 says of a step that calls add_voice or initialize_voices.
UpsertStep ==
    /\ result'.kind # "error"
    /\ DOMAIN voices' = DOMAIN voices \cup GivenIds
    /\ \A k \in 1..Len(GivenVoices) :
          (\A m \in (k + 1)..Len(GivenVoices) : GivenVoices[m].id # GivenVoices[k].id)
              => voices'[GivenVoices[k].id] = GivenVoices[k]
    /\ \A id \in DOMAIN voices \ GivenIds : voices'[id] = voices[id]
    /\ Len(voice_order') = Cardinality(DOMAIN voices')
    /\ \A k \in 1..Len(voice_order) : voice_order'[k] = voice_order[k]

\* C19: add_voice and initialize_voices never fail; afterwards every
\* identifier given resolves to the voice given for it (the last one when the
\* identifier repeats), a registered identifier is replaced in its place and
\* not listed twice, and the entries of the other identifiers are as they were.
C19_UpsertVoices ==
    [][(pc = "idle" /\ op' \in {"add_voice", "initialize_voices"}) => UpsertStep]_vars

\* initialize_voices was given two different voices of one identifier, and a
\* voice of another identifier is still registered.
C19_Witness ==
    /\ pc = "done" /\ op = "initialize_voices"
    /\ Len(arg[1]) = 2
    /\ arg[1][1].id = arg[1][2].id
    /\ arg[1][1] # arg[1][2]
    /\ voices[arg[1][2].id] = arg[1][2]
    /\ DOMAIN voices # {arg[1][2].id}

\* C20: the registry holds one voice per identifier, each under its own
\* identifier, and list_voices returns exactly the registered voices, no
\* identifier twice.
C20_RegistryInvariant ==
    /\ \A id \in DOMAIN voices : voices[id].id = id
    /\ Len(voice_order) = Cardinality(DOMAIN voices)
    /\ {voice_order[k] : k \in 1..Len(voice_order)} = DOMAIN voices
    /\ (pc = "done" /\ op = "list_voices") =>
          /\ result.kind = "list"
          /\ {result.items[k] : k \in 1..Len(result.items)} = {voices[id] : id \in DOMAIN voices}
          /\ \A k, m \in 1..Len(result.items) :
                result.items[k].id = result.items[m].id => k = m

\* list_voices has returned two voices, one of which replaced another voice
\* of its identifier.
C20_Witness ==
    /\ pc = "done" /\ op = "list_voices"
    /\ Len(result.items) >= 2
    /\ \E k \in 1..Len(result.items) : result.items[k] \in {VoiceE1b, VoiceO1b}

(* ------------------- claims on two successive invocations ------------- *)

\* The invocation of generate_speech_list that is over repeats the one the
\* caller kept: same blocks, same normalize_outputs and request_stitching, on
\* the same registry.
Repeated ==
    /\ pc = "done" /\ op = "generate_speech_list"
    /\ last # None
    /\ speech_blocks = last[1].speech_blocks
    /\ normalize_outputs = last[1].normalize_outputs
    /\ request_stitching = last[1].request_stitching

\* The provider answered the n-th call of this invocation as it answered the
\* n-th call of the one before, for every n both have.
SameResponses ==
    \A n \in 1..Len(calls) :
        n <= Len(last[1].calls) =>
            /\ calls[n].outcome = last[1].calls[n].outcome
            /\ calls[n].clip = last[1].calls[n].clip

\* The concatenation of a list of buffers from the left, starting from the
\* empty buffer.
RECURSIVE ConcatenationFrom(_, _, _)
ConcatenationFrom(buffer, list, k) ==
    IF k > Len(list) THEN buffer
    ELSE ConcatenationFrom(buffer \o <<list[k]>>, list, k + 1)

\* C21: for the same blocks, registry, normalize_outputs, request_stitching
\* and provider responses, the call with single_output=True and the call with
\* single_output=False both succeed or both fail, and the buffer the first
\* returns is the left-to-right concatenation, from the empty buffer, of the
\* list the second returns.
C21_SingleIsConcatenationOfList ==
    (Repeated /\ SameResponses /\ single_output # last[1].single_output) =>
        LET one == IF single_output THEN result ELSE last[1].result
            many == IF single_output THEN last[1].result ELSE result
        IN  /\ (one.kind = "audio") = (many.kind = "list")
            /\ (one.kind = "error") = (many.kind = "error")
            /\ one.kind = "audio" => one.pieces = ConcatenationFrom(<<>>, many.items, 1)

\* A list of two audios of different loudness, normalized, and the single
\* buffer of the same call.
C21_Witness ==
    /\ Repeated /\ SameResponses /\ single_output /\ ~last[1].single_output
    /\ normalize_outputs
    /\ result.kind = "audio"
    /\ Len(last[1].result.items) = 2
    /\ last[1].result.items[1].dBFS # last[1].result.items[2].dBFS

(* -------------------------------- C22 --------------------------------- *)

MissingRequestId == AdapterError(ELEVENLABS, "no_request_id")

\* The calls whose response had no request-id header.
CallsWithoutToken == {m \in 1..Len(calls) : calls[m].outcome = "no_request_id"}

\* C22: an ElevenLabs response without request-id header ends the invocation:
\* it fails with the missing request-id error (as it is, or wrapped), the call
\* is the last one made (no retry, and in a group flush no call for a later
\* block of the group), and no audio is kept for it.
C22_MissingTokenIsFatal ==
    \A m \in CallsWithoutToken :
        /\ pc = "done"
        /\ result.kind = "error"
        /\ result.error \in {MissingRequestId, Wrapped(MissingRequestId)}
        /\ m = Len(calls)
        /\ \A k \in 1..Len(audio_segments) : audio_segments[k].call # m
        /\ \A k \in 1..Len(eleven_labs_audio_segments) :
              eleven_labs_audio_segments[k].audio.call # m

\* The second call of a flush of at least three blocks gets a response
\* without request-id header, after a first call that gave audio.
C22_Witness ==
    /\ CallsWithoutToken # {}
    /\ calls[Len(calls)].via = "flush"
    /\ calls[Len(calls)].k = 2
    /\ Len(flushes[calls[Len(calls)].flush]) >= 3
    /\ Len(eleven_labs_audio_segments) = 1

(* -------------------------------- C23 --------------------------------- *)

\* C23: with request_stitching on, the provider calls of an invocation follow
\* the input order: for positions i < j, every call for block j comes after
\* the last call for block i (each call is made once the call before it has
\* its response, calls being recorded in the order they are made).
C23_CallsFollowInputOrder ==
    (op = "generate_speech_list" /\ request_stitching) =>
        \A m, n \in 1..Len(calls) : calls[m].pos < calls[n].pos => m < n

(* -------------------------------- C24 --------------------------------- *)

\* The blocks at two positions name the same voice.
SameVoice(a, b) == speech_blocks[a].voice_id = speech_blocks[b].voice_id

\* The positions from..to are a maximal run of blocks of one voice.
MaximalRun(from, to) ==
    /\ \A k \in from..to : SameVoice(k, from)
    /\ from > 1 => ~SameVoice(from - 1, from)
    /\ to < N => ~SameVoice(to + 1, from)

\* C24: every non-empty group given to generate_eleven_labs_audio_group is a
\* maximal run of blocks that are consecutive in the input and have one
\* ElevenLabs voice; so the previous_text and next_text of a call of the flush
\* hold only texts of blocks of that contiguous run.
C24_GroupsAreMaximalRuns ==
    \A f \in 1..Len(flushes) :
        LET group == flushes[f]
        IN  Len(group) > 0 =>
                /\ \A k \in 1..(Len(group) - 1) : group[k + 1] = group[k] + 1
                /\ \A k \in 1..Len(group) :
                      /\ speech_blocks[group[k]].voice_id \in DOMAIN voices
                      /\ voices[speech_blocks[group[k]].voice_id].platform = ELEVENLABS
                /\ MaximalRun(group[1], group[Len(group)])

(* -------------------------------- C25 --------------------------------- *)

\* The audios generate_speech_list returned: the list, or the pieces of the
\* single buffer.
Returned == IF result.kind = "audio" THEN result.pieces ELSE result.items

\* C25: with normalize_outputs=False no gain is applied: every audio
\* generate_speech_list returns, in the list or as a piece of the single
\* buffer, is the audio decoded from the response to a call made for a block
\* of the input, loudness and length as decoded; and normalize_audio returns
\* the list it was given.
C25_NoGainWithoutNormalize ==
    /\ (pc = "done" /\ op = "generate_speech_list" /\ result.kind # "error"
            /\ ~normalize_outputs) =>
          \A k \in 1..Len(Returned) :
              LET audio == Returned[k]
              IN  /\ audio.call \in 1..Len(calls)
                  /\ calls[audio.call].pos \in 1..N
                  /\ calls[audio.call].outcome = "ok"
                  /\ audio.dBFS = RInt(calls[audio.call].clip.dBFS)
                  /\ audio.ms = calls[audio.call].clip.ms
    /\ (NormalizeOver /\ ~normalize_outputs) =>
          (result.kind = "list" /\ result.items = audio_segments)

\* Two audios of different loudness returned as they were decoded.
C25_Witness ==
    /\ pc = "done" /\ op = "generate_speech_list" /\ result.kind # "error"
    /\ ~normalize_outputs
    /\ Len(Returned) = 2
    /\ Returned[1].dBFS # Returned[2].dBFS

(* -------------------------------- C26 --------------------------------- *)

\* A step of generate_speech, generate_speech_list (its flushes included) or
\* normalize_audio leaves the registry as it is, and the list of speech blocks
\* as it is once the call has it.
GenerationStepFrame ==
    op' \in {"generate_speech", "generate_speech_list", "normalize_audio"} =>
        /\ voices' = voices
        /\ voice_order' = voice_order
        /\ pc # "idle" => speech_blocks' = speech_blocks

\* The scan starts with an empty group and no audio, and every flush starts
\* with no request id and no audio of its own.
StartsFromEmpty ==
    /\ (op = "generate_speech_list" /\ pc = "scan" /\ i = 1) =>
          (eleven_labs_speech_block_group = <<>> /\ audio_segments = <<>> /\ calls = <<>>)
    /\ (pc = "flush" /\ j = 1) =>
          (previous_request_ids = <<>> /\ eleven_labs_audio_segments = <<>>)

\* A call that repeats the one before, with the same provider responses, has
\* made the same provider calls and the same flushes.
RepeatsTheCalls ==
    (Repeated /\ SameResponses) =>
        (calls = last[1].calls /\ flushes = last[1].flushes)

\* C26: generate_speech, generate_speech_list, generate_eleven_labs_audio_group
\* and normalize_audio change neither the registry nor the list of speech
\* blocks, whether they succeed or fail; the group and the request-id history
\* start from empty in every generate_speech_list call, and two successive
\* calls with the same input and the same provider responses make the same
\* provider calls.
C26_CallsLeaveNoTrace ==
    /\ [][GenerationStepFrame]_vars
    /\ [](StartsFromEmpty /\ RepeatsTheCalls)

\* The call kept failed in a flush, after a first call that gave a request
\* id; the call that repeats it has ended the same way.
C26_Witness ==
    /\ Repeated /\ SameResponses
    /\ result.kind = "error"
    /\ last[1].result.kind = "error"
    /\ Len(calls) = 2
    /\ calls[2].via = "flush"
    /\ calls[2].previous_request_ids # None

====
